---- MODULE Spec2Model ----
(***************************************************************************)
(* MindControl (mindctrl.py): the EV3 and NXT motion sessions, modelled at  *)
(* the level of the serial port calls they make.  Every port.write and      *)
(* port.read of a call is recorded, in order, in the variable wire.         *)
(***************************************************************************)
EXTENDS Integers, Sequences, FiniteSets, TLC

(***************************************************************************)
(* Bounds of the model.                                                     *)
(***************************************************************************)
\* Most arguments a caller passes to rotate / rotateto in the model (one more
\* than the EV3 accepts).
MaxArgs == 5
\* Most replies of one EV3 call that are empty or cut short by the read
\* timeout and still let the call go on.
MaxShortReplies == 1
\* Most mailbox replies of one NXT call that neither acknowledge nor reject.
MaxIdlePolls == 2
\* Largest angle magnitude of the vectors the speed scaling is applied to.
MaxScaleAngle == 2
\* Largest coordinate magnitude and largest length of the vectors handed to
\* getstepper.
MaxStepCoord == 2
MaxStepLen == 2
\* Largest magnitude, in halves, of the small values handed to the operand
\* encoders (6: the values -3, -2.5, .. 2.5, 3).
MaxPackHalves == 6
\* speed: Speed to turn with (0..100), percentage.
MaxSpeedPercent == 100

\* Optional arguments: None is the empty tuple, a value v is <<v>>.
NoneV == <<>>
Some(v) == <<v>>

\* Angles a caller passes to rotate, speeds, and positions passed to rotateto.
AngleVals == {-45, 0, 90}
Speeds == {0, 100}
Positions == {0, 1}

(***************************************************************************)
(* Byte helpers.                                                            *)
(***************************************************************************)
RECURSIVE Pow2(_)
Pow2(n) == IF n = 0 THEN 1 ELSE 2 * Pow2(n - 1)

Abs(v) == IF v < 0 THEN -v ELSE v

Max(a, b) == IF a >= b THEN a ELSE b

RECURSIVE MaxAbs(_)
MaxAbs(s) == IF s = <<>> THEN 0 ELSE Max(Abs(Head(s)), MaxAbs(Tail(s)))

\* Python's value & 255 and (value >> k) & 255 on an unbounded integer.
Byte(value, k) == (value \div Pow2(k)) % 256

(***************************************************************************)
(* ValueEncoder: pack2b .. pack5b (integer input: round is the identity).   *)
(***************************************************************************)
pack2b(value) == <<129, Byte(value, 0)>>

pack3b(value) == <<130, Byte(value, 0), Byte(value, 8)>>

pack5b(value) ==
    <<131, Byte(value, 0), Byte(value, 8), Byte(value, 16), Byte(value, 24)>>

\* Mutant of RoundHalfEven: the quotient is truncated.
RoundHalfEven_Truncates(num, den) == num \div den

\* Python's round(num / den) for den > 0: nearest integer, ties to even.
RoundHalfEven(num, den) ==
    LET q == num \div den
        r == num % den
    IN  IF 2 * r < den THEN q
        ELSE IF 2 * r > den THEN q + 1
        ELSE IF q % 2 = 0 THEN q ELSE q + 1

(***************************************************************************)
(* EV3 opcode groups.                                                       *)
(***************************************************************************)
Ev3Header == <<0, 0, 0, 0, 0>>

\* Mutant of Ev3WaitAll: the wait names the first motor only.
Ev3WaitAll_FirstMotor == <<170, 0, 1>>

\* wait = bytes((170, 0, 15))  # Wait for all motors
Ev3WaitAll == <<170, 0, 15>>

\* Mutant of Ev3Polarity: forward and reverse are swapped.
Ev3Polarity_Swapped(motor, angle) ==
    <<167, 0, Pow2(motor), IF angle < 0 THEN 1 ELSE 63>>

\* motor is the 0-based actuator index.
Ev3Polarity(motor, angle) ==
    <<167, 0, Pow2(motor), IF angle < 0 THEN 63 ELSE 1>>

Ev3Movement(motor, speed, angle) ==
    <<174, 0, Pow2(motor)>> \o pack2b(speed) \o pack5b(0) \o pack5b(angle)
        \o pack5b(0) \o <<1>>

Ev3Start(motor) == <<166, 0, Pow2(motor)>>

\* Mutant of MotorSpeed: the "or 1" is missing.
MotorSpeed_NoFloor(speed, angle, maxangle) ==
    RoundHalfEven(Abs(speed * angle), maxangle)

\* The speed of one motor of a simultaneous move: round(abs(speed * angle /
\* maxangle)) or 1.
MotorSpeed(speed, angle, maxangle) ==
    LET r == RoundHalfEven(Abs(speed * angle), maxangle)
    IN  IF r = 0 THEN 1 ELSE r

\* The triplets [motor, angle, speed] of a simultaneous move, motors
\* ascending, zero angles skipped.
RECURSIVE Ev3MovesFrom(_, _, _, _)
Ev3MovesFrom(motors, speed, maxangle, m) ==
    IF m >= Len(motors) THEN <<>>
    ELSE IF motors[m + 1] = 0 THEN Ev3MovesFrom(motors, speed, maxangle, m + 1)
    ELSE <<[motor |-> m, angle |-> motors[m + 1],
            speed |-> MotorSpeed(speed, motors[m + 1], maxangle)]>>
         \o Ev3MovesFrom(motors, speed, maxangle, m + 1)

Ev3Moves(motors, speed) == Ev3MovesFrom(motors, speed, MaxAbs(motors), 0)

RECURSIVE Ev3SimultBody(_)
Ev3SimultBody(moves) ==
    IF moves = <<>> THEN <<>>
    ELSE Ev3Polarity(Head(moves).motor, Head(moves).angle)
         \o Ev3Movement(Head(moves).motor, Head(moves).speed, Head(moves).angle)
         \o Ev3SimultBody(Tail(moves))

Ev3SimultMessage(motors, speed) ==
    Ev3Header \o Ev3SimultBody(Ev3Moves(motors, speed)) \o Ev3WaitAll

Ev3SeqMessage(motor, speed, angle) ==
    Ev3Header \o Ev3Polarity(motor, angle) \o Ev3Movement(motor, speed, angle)
        \o Ev3Start(motor) \o Ev3WaitAll

\* send's framing: the length, low byte first, then the message.
\* Mutant of Ev3Frame: the length prefix counts its own two bytes.
Ev3Frame_CountsPrefix(message) ==
    <<(Len(message) + 2) % 256, (Len(message) + 2) \div 256>> \o message

Ev3Frame(message) == <<Len(message) % 256, Len(message) \div 256>> \o message

(***************************************************************************)
(* NXT frames.  struct.pack('f', v) of an integer v with |v| < 2^24: the    *)
(* IEEE-754 single-precision bits, low byte first.                          *)
(***************************************************************************)
RECURSIVE FloorLog2(_)
FloorLog2(a) == IF a <= 1 THEN 0 ELSE 1 + FloorLog2(a \div 2)

\* The 23 fraction bits and the 8 exponent bits of an integer v # 0.
FloatMantissa(v) ==
    LET a == Abs(v)
        e == FloorLog2(a)
    IN  (a - Pow2(e)) * Pow2(23 - e)

FloatExponent(v) == FloorLog2(Abs(v)) + 127

PackF(v) ==
    IF v = 0 THEN <<0, 0, 0, 0>>
    ELSE <<Byte(FloatMantissa(v), 0),
           Byte(FloatMantissa(v), 8),
           (FloatExponent(v) % 2) * 128 + Byte(FloatMantissa(v), 16),
           (IF v < 0 THEN 128 ELSE 0) + FloatExponent(v) \div 2>>

NxtFrame(v) == <<9, 0, 128, 9, 0, 5>> \o PackF(v) \o <<0>>

\* Motor number (1-based), angle, speed: written by one port.write.
NxtMessage(motor, angle, speed) ==
    NxtFrame(motor + 1) \o NxtFrame(angle) \o NxtFrame(speed)

NxtCheckMailbox == <<5, 0, 0, 19, 10, 0, 1>>

NxtRejectSig == <<2, 19, 236>>

\* b'ACKNOWLEDGED'
NxtAckToken == <<65, 67, 75, 78, 79, 87, 76, 69, 68, 71, 69, 68>>

\* Python's reply[0:n].
Slice(b, n) == SubSeq(b, 1, IF n < Len(b) THEN n ELSE Len(b))

\* Python's token in reply.
Contains(reply, token) ==
    \E i \in 0..(Len(reply) - Len(token)) :
        SubSeq(reply, i + 1, i + Len(token)) = token

\* Mutant of NxtIsRejected: the whole reply is compared with the signature.
NxtIsRejected_WholeReply(reply) == reply = NxtRejectSig

\* reply[0:3] == bytes((2, 19, 236))
NxtIsRejected(reply) == Slice(reply, 3) = NxtRejectSig

NxtIsAcknowledged(reply) == Contains(reply, NxtAckToken)

(***************************************************************************)
(* Arguments: None becomes 0, missing trailing arguments become 0.          *)
(***************************************************************************)
NormalizeAngles(args, width) ==
    [i \in 1..width |->
        IF i <= Len(args) /\ args[i] # NoneV THEN args[i][1] ELSE 0]

\* rotateto: missing trailing positions become None.
NormalizePositions(args, width) ==
    [i \in 1..width |-> IF i <= Len(args) THEN args[i] ELSE NoneV]

\* Mutant of Ev3TooMany: the limit is off by one.
Ev3TooMany_OffByOne(args) == Len(args) > 5

\* len(motors) > 4 (EV3), len(motors) > 3 (NXT)
Ev3TooMany(args) == Len(args) > 4

NxtTooMany(args) == Len(args) > 3

ArgLists(vals, n) == [1..n -> {Some(v) : v \in vals} \cup {NoneV}]

(***************************************************************************)
(* What the device may deliver to one send of the EV3 within the read       *)
(* timeout: hdr is what port.read(2) returns, body what the following       *)
(* port.read(length) returns.                                               *)
(***************************************************************************)
Ev3Reply == <<0, 0, 2>>

Ev3FullDelivery == [hdr |-> <<3, 0>>, body |-> Ev3Reply]

\* Deliveries after which send returns, although the reply is empty or short.
Ev3OddDeliveries ==
    { [hdr |-> <<0, 0>>, body |-> <<>>],
      [hdr |-> <<3, 0>>, body |-> <<0>>],
      [hdr |-> <<3, 0>>, body |-> <<>>] }

\* Deliveries whose length prefix is cut short by the timeout.
Ev3HeaderTimeouts ==
    { [hdr |-> <<>>, body |-> <<>>], [hdr |-> <<3>>, body |-> <<>>] }

(***************************************************************************)
(* What the NXT may deliver to one mailbox check within the read timeout.   *)
(***************************************************************************)
Delivery(body) == [hdr |-> <<Len(body) % 256, Len(body) \div 256>>, body |-> body]

NxtAckReply == <<2, 19, 0>> \o NxtAckToken

NxtAckDeliveries == { Delivery(NxtAckReply) }

\* The signature alone, the signature with more bytes after it, and the
\* signature followed by the acknowledgment token.
NxtRejectDeliveries ==
    { Delivery(NxtRejectSig),
      Delivery(NxtRejectSig \o <<0, 0>>),
      Delivery(NxtRejectSig \o NxtAckToken) }

\* Replies that neither reject nor acknowledge: a mailbox that is still
\* empty, an empty reply, and an acknowledgment cut short by the timeout.
NxtOddDeliveries ==
    { Delivery(<<2, 19, 64>>),
      Delivery(<<>>),
      [hdr |-> <<15, 0>>, body |-> <<2, 19, 0, 65, 67>>] }

NxtHeaderTimeouts ==
    { [hdr |-> <<>>, body |-> <<>>], [hdr |-> <<3>>, body |-> <<>>] }

(***************************************************************************)
(* State.                                                                   *)
(***************************************************************************)
VARIABLES
    dev,          \* "EV3" or "NXT": the class of the session
    portOpen,     \* self.port.isOpen()
    relposition,  \* self.relposition
    pc,           \* where the running call stands ("idle": none runs)
    cur,          \* the running call: its name and parsed arguments
    idx,          \* the loop's motor index (0-based)
    replywaits,   \* NXT: mailbox replies read for the current motor
    wire,         \* port calls of the running call, in order
    odd,          \* odd replies the running call has met
    result,       \* how the call ended: its return value and the error logged
    lastTarget    \* history: per motor, the last position an accepted
                  \* rotateto call supplied (0 while none did)

vars == <<dev, portOpen, relposition, pc, cur, idx, replywaits, wire, odd,
          result, lastTarget>>

NoCall == [op |-> "none", argc |-> 0, motors |-> <<>>, speed |-> 0,
           simult |-> FALSE, relpos |-> <<>>, before |-> <<>>]

Pending == [kind |-> "pending", value |-> <<>>, err |-> "none"]

Returned(value, err) == [kind |-> "returned", value |-> value, err |-> err]

Raised(err) == [kind |-> "raised", value |-> <<>>, err |-> err]

\* Python's None as a return value; bytes are returned as <<"bytes", b>>.
PyNone == <<"None">>

PyBytes(b) == <<"bytes", b>>

WriteEv(data) == [op |-> "write", n |-> Len(data), data |-> data]

ReadEv(n, data) == [op |-> "read", n |-> n, data |-> data]

\* Motors of the device class: len(self.relposition).
Width(d) == IF d = "EV3" THEN 4 ELSE 3

\* self.relscale, never changed by the code.
RelScale(d, i) == 1

Init ==
    /\ dev \in {"EV3", "NXT"}
    /\ portOpen = TRUE
    /\ relposition = [i \in 1..Width(dev) |-> 0]
    /\ pc = "idle"
    /\ cur = NoCall
    /\ idx = 0
    /\ replywaits = 0
    /\ wire = <<>>
    /\ odd = 0
    /\ result = Pending
    /\ lastTarget = [i \in 1..Width(dev) |-> 0]

\* The index of the first nonzero motor at or after m, or Len(motors).
RECURSIVE NextMotor(_, _)
NextMotor(motors, m) ==
    IF m >= Len(motors) THEN m
    ELSE IF motors[m + 1] # 0 THEN m
    ELSE NextMotor(motors, m + 1)

(***************************************************************************)
(* EV3.send: the write half.  With the port closed nothing is written and   *)
(* send returns None at once.                                               *)
(***************************************************************************)
\* Mutant of Ev3AfterSend: when send returned None the same motor's message
\* is sent again.
Ev3AfterSend_RetriesOnNone(v, err) ==
    IF cur.op \in {"rotate", "rotateto"} /\ ~cur.simult
    THEN /\ pc' = "ev3_seq"
         /\ idx' = IF v = PyNone THEN idx ELSE idx + 1
         /\ result' = [result EXCEPT !.err = IF err = "none" THEN @ ELSE err]
    ELSE /\ pc' = "done"
         /\ idx' = idx
         /\ result' = Returned(IF cur.op = "send" THEN v ELSE PyNone,
                               IF err = "none" THEN result.err ELSE err)

\* Where a call goes on when send has returned value v (err: what send
\* logged).  rotate and spin drop the value.
Ev3AfterSend(v, err) ==
    IF cur.op \in {"rotate", "rotateto"} /\ ~cur.simult
    THEN /\ pc' = "ev3_seq"
         /\ idx' = idx + 1
         /\ result' = [result EXCEPT !.err = IF err = "none" THEN @ ELSE err]
    ELSE /\ pc' = "done"
         /\ idx' = idx
         /\ result' = Returned(IF cur.op = "send" THEN v ELSE PyNone,
                               IF err = "none" THEN result.err ELSE err)

\* Mutant of Ev3Send: the message is written without asking whether the
\* port is open.
Ev3Send_NoOpenTest(message) ==
    /\ wire' = Append(wire, WriteEv(Ev3Frame(message)))
    /\ pc' = "ev3_reply"
    /\ UNCHANGED <<idx, result>>

Ev3Send(message) ==
    IF portOpen
    THEN /\ wire' = Append(wire, WriteEv(Ev3Frame(message)))
         /\ pc' = "ev3_reply"
         /\ UNCHANGED <<idx, result>>
    ELSE /\ wire' = wire
         /\ Ev3AfterSend(PyNone, "PortClosed")

(***************************************************************************)
(* EV3.rotate                                                               *)
(***************************************************************************)
Ev3RotateBody(args, speed, simult, op, relpos, before) ==
    /\ cur' = [op |-> op, argc |-> Len(args),
               motors |-> IF Ev3TooMany(args) THEN <<>>
                          ELSE NormalizeAngles(args, 4),
               speed |-> speed, simult |-> simult,
               relpos |-> relpos, before |-> before]
    /\ wire' = <<>>
    /\ odd' = 0
    /\ idx' = 0
    /\ replywaits' = 0
    /\ IF Ev3TooMany(args)
       THEN /\ pc' = "done"
            /\ result' = Returned(PyNone, "TooManyActuators")
       ELSE /\ pc' = IF simult THEN "ev3_simult" ELSE "ev3_seq"
            /\ result' = Pending

Ev3Rotate ==
    /\ dev = "EV3"
    /\ pc = "idle"
    /\ \E n \in 0..MaxArgs, speed \in Speeds, simult \in BOOLEAN :
         \E args \in ArgLists(AngleVals, n) :
            Ev3RotateBody(args, speed, simult, "rotate", <<>>, <<>>)
    /\ UNCHANGED <<dev, portOpen, relposition, lastTarget>>

\* simult: one message for all the motors.
Ev3RotateSimult ==
    /\ pc = "ev3_simult"
    /\ Ev3Send(Ev3SimultMessage(cur.motors, cur.speed))
    /\ UNCHANGED <<dev, portOpen, relposition, lastTarget, cur, odd, replywaits>>

\* Mutant of Ev3RotateSeq: the next motor's message is written without
\* waiting for the reply to the one before.
Ev3RotateSeq_NoWait ==
    /\ pc = "ev3_seq"
    /\ LET m == NextMotor(cur.motors, idx)
       IN  IF m >= Len(cur.motors)
           THEN /\ pc' = "done"
                /\ result' = Returned(PyNone, result.err)
                /\ UNCHANGED <<idx, wire>>
           ELSE /\ wire' = Append(wire, WriteEv(Ev3Frame(
                               Ev3SeqMessage(m, cur.speed, cur.motors[m + 1]))))
                /\ pc' = "ev3_seq"
                /\ idx' = m + 1
                /\ UNCHANGED result
    /\ UNCHANGED <<dev, portOpen, relposition, lastTarget, cur, odd, replywaits>>

\* sequential: the loop over the motors; one message for the next nonzero one.
Ev3RotateSeq ==
    /\ pc = "ev3_seq"
    /\ LET m == NextMotor(cur.motors, idx)
       IN  IF m >= Len(cur.motors)
           THEN /\ pc' = "done"
                /\ result' = Returned(PyNone, result.err)
                /\ UNCHANGED <<idx, wire>>
           ELSE IF portOpen
           THEN /\ wire' = Append(wire, WriteEv(Ev3Frame(
                               Ev3SeqMessage(m, cur.speed, cur.motors[m + 1]))))
                /\ pc' = "ev3_reply"
                /\ idx' = m
                /\ UNCHANGED result
           ELSE /\ wire' = wire
                /\ pc' = "ev3_seq"
                /\ idx' = m + 1
                /\ result' = [result EXCEPT !.err = "PortClosed"]
    /\ UNCHANGED <<dev, portOpen, relposition, lastTarget, cur, odd, replywaits>>

(***************************************************************************)
(* EV3.send: the read half.  replen[0] + replen[1] * 256 raises IndexError  *)
(* when fewer than two bytes came; otherwise send returns reply or None.    *)
(***************************************************************************)
Ev3Receive(d) ==
    LET replen == d.hdr[1] + d.hdr[2] * 256
    IN  /\ wire' = wire \o <<ReadEv(2, d.hdr), ReadEv(replen, d.body)>>
        /\ Ev3AfterSend(IF d.body = <<>> THEN PyNone ELSE PyBytes(d.body),
                        "none")

Ev3ReplyFull ==
    /\ pc = "ev3_reply"
    /\ Ev3Receive(Ev3FullDelivery)
    /\ UNCHANGED <<dev, portOpen, relposition, lastTarget, cur, odd, replywaits>>

Ev3ReplyOdd ==
    /\ pc = "ev3_reply"
    /\ odd < MaxShortReplies
    /\ odd' = odd + 1
    /\ \E d \in Ev3OddDeliveries : Ev3Receive(d)
    /\ UNCHANGED <<dev, portOpen, relposition, lastTarget, cur, replywaits>>

\* Mutant of Ev3ReplyTimeout: a length prefix cut short is taken as a reply
\* of length 0 and send returns None.
Ev3ReplyTimeout_ReturnsNone ==
    /\ pc = "ev3_reply"
    /\ \E d \in Ev3HeaderTimeouts :
          wire' = Append(wire, ReadEv(2, d.hdr))
    /\ pc' = "done"
    /\ result' = Returned(PyNone, result.err)
    /\ UNCHANGED <<dev, portOpen, relposition, lastTarget, cur, idx, odd, replywaits>>

Ev3ReplyTimeout ==
    /\ pc = "ev3_reply"
    /\ \E d \in Ev3HeaderTimeouts :
          wire' = Append(wire, ReadEv(2, d.hdr))
    /\ pc' = "done"
    /\ result' = Raised("IndexError")
    /\ UNCHANGED <<dev, portOpen, relposition, lastTarget, cur, idx, odd, replywaits>>

(***************************************************************************)
(* EV3.rotateto                                                             *)
(***************************************************************************)
\* The deltas handed to rotate: 0 for None, else (position - relposition)
\* times the scale.
Deltas(d, relpos, rel) ==
    [i \in 1..Len(relpos) |->
        IF relpos[i] = NoneV THEN 0
        ELSE (relpos[i][1] - rel[i]) * RelScale(d, i)]

\* Mutant of NewRelPosition: the delta is stored instead of the position.
NewRelPosition_StoresDelta(relpos, rel) ==
    [i \in 1..Len(rel) |->
        IF relpos[i] = NoneV THEN rel[i] ELSE relpos[i][1] - rel[i]]

\* self.relposition after the loop.
NewRelPosition(relpos, rel) ==
    [i \in 1..Len(rel) |-> IF relpos[i] = NoneV THEN rel[i] ELSE relpos[i][1]]

\* History: the positions this call supplies, over those of earlier calls.
Supplied(args, last) ==
    [i \in 1..Len(last) |->
        IF i <= Len(args) /\ args[i] # NoneV THEN args[i][1] ELSE last[i]]

\* Mutant of TooMany: the count is only found wrong after a message went
\* out.
TooMany_AfterWrite(op, n) ==
    /\ cur' = [op |-> op, argc |-> n, motors |-> <<>>, speed |-> 0,
               simult |-> FALSE, relpos |-> <<>>, before |-> relposition]
    /\ wire' = <<WriteEv(Ev3Frame(Ev3Header))>>
    /\ odd' = 0
    /\ idx' = 0
    /\ replywaits' = 0
    /\ pc' = "done"
    /\ result' = Returned(PyNone, "TooManyActuators")

\* rotateto with too many positions: the error is logged and None returned
\* before anything else is done.
TooMany(op, n) ==
    /\ cur' = [op |-> op, argc |-> n, motors |-> <<>>, speed |-> 0,
               simult |-> FALSE, relpos |-> <<>>, before |-> relposition]
    /\ wire' = <<>>
    /\ odd' = 0
    /\ idx' = 0
    /\ replywaits' = 0
    /\ pc' = "done"
    /\ result' = Returned(PyNone, "TooManyActuators")

Ev3RotateTo ==
    /\ dev = "EV3"
    /\ pc = "idle"
    /\ \E n \in 0..MaxArgs, speed \in Speeds, simult \in BOOLEAN :
         \E args \in ArgLists(Positions, n) :
            IF Ev3TooMany(args)
            THEN /\ TooMany("rotateto", n)
                 /\ UNCHANGED <<relposition, lastTarget>>
            ELSE LET relpos == NormalizePositions(args, 4)
                     deltas == Deltas(dev, relpos, relposition)
                 IN  /\ relposition' = NewRelPosition(relpos, relposition)
                     /\ lastTarget' = Supplied(args, lastTarget)
                     /\ Ev3RotateBody([i \in 1..4 |-> Some(deltas[i])], speed,
                                      simult, "rotateto", relpos, relposition)
    /\ UNCHANGED <<dev, portOpen>>

(***************************************************************************)
(* NXT.rotate                                                               *)
(***************************************************************************)
NxtRotateBody(args, speed, op, relpos, before) ==
    /\ cur' = [op |-> op, argc |-> Len(args),
               motors |-> IF NxtTooMany(args) THEN <<>>
                          ELSE NormalizeAngles(args, 4),
               speed |-> speed, simult |-> FALSE,
               relpos |-> relpos, before |-> before]
    /\ wire' = <<>>
    /\ odd' = 0
    /\ idx' = 0
    /\ replywaits' = 0
    /\ IF NxtTooMany(args)
       THEN /\ pc' = "done"
            /\ result' = Returned(PyNone, "TooManyActuators")
       ELSE /\ pc' = "nxt_loop"
            /\ result' = Pending

NxtRotate ==
    /\ dev = "NXT"
    /\ pc = "idle"
    /\ \E n \in 0..(MaxArgs - 1), speed \in Speeds :
         \E args \in ArgLists(AngleVals, n) :
            NxtRotateBody(args, speed, "rotate", <<>>, <<>>)
    /\ UNCHANGED <<dev, portOpen, relposition, lastTarget>>

\* The loop over the motors: the three frames of the next nonzero motor, in
\* one port.write, which raises when the port is closed.
NxtRotateLoop ==
    /\ pc = "nxt_loop"
    /\ LET m == NextMotor(cur.motors, idx)
       IN  IF m >= Len(cur.motors)
           THEN /\ pc' = "done"
                /\ result' = Returned(PyNone, result.err)
                /\ UNCHANGED <<idx, wire, replywaits>>
           ELSE IF portOpen
           THEN /\ wire' = Append(wire, WriteEv(
                               NxtMessage(m, cur.motors[m + 1], cur.speed)))
                /\ pc' = "nxt_poll"
                /\ idx' = m
                /\ replywaits' = 0
                /\ UNCHANGED result
           ELSE /\ pc' = "done"
                /\ result' = Raised("PortNotOpen")
                /\ UNCHANGED <<idx, wire, replywaits>>
    /\ UNCHANGED <<dev, portOpen, relposition, lastTarget, cur, odd>>

\* while True: self.port.write(checkmailbox)
NxtPoll ==
    /\ pc = "nxt_poll"
    /\ wire' = Append(wire, WriteEv(NxtCheckMailbox))
    /\ pc' = "nxt_reply"
    /\ UNCHANGED <<dev, portOpen, relposition, lastTarget, cur, idx, replywaits, odd,
                   result>>

\* Mutant of NxtReceive: any reply that does not reject ends the polling.
NxtReceive_AnyReplyAcks(d) ==
    LET replysize == d.hdr[1] + d.hdr[2] * 256
        reply == d.body
    IN  /\ wire' = wire \o <<ReadEv(2, d.hdr), ReadEv(replysize, reply)>>
        /\ replywaits' = replywaits + 1
        /\ IF NxtIsRejected(reply)
           THEN /\ pc' = "done"
                /\ result' = Returned(PyNone, "CompanionProgramNotRunning")
                /\ idx' = idx
           ELSE /\ pc' = "nxt_loop"
                /\ idx' = idx + 1
                /\ result' = result

\* Mutant of NxtReceive: a rejection only leaves the polling loop (break),
\* and rotate goes on with the next motor.
NxtReceive_RejectBreaks(d) ==
    LET replysize == d.hdr[1] + d.hdr[2] * 256
        reply == d.body
    IN  /\ wire' = wire \o <<ReadEv(2, d.hdr), ReadEv(replysize, reply)>>
        /\ replywaits' = replywaits + 1
        /\ IF NxtIsRejected(reply)
           THEN /\ pc' = "nxt_loop"
                /\ result' = [result EXCEPT
                                 !.err = "CompanionProgramNotRunning"]
                /\ idx' = idx + 1
           ELSE IF NxtIsAcknowledged(reply)
           THEN /\ pc' = "nxt_loop"
                /\ idx' = idx + 1
                /\ result' = result
           ELSE /\ pc' = "nxt_poll"
                /\ idx' = idx
                /\ result' = result

\* Mutant of NxtReceive: the acknowledgment is tested before the rejection.
NxtReceive_AckTestFirst(d) ==
    LET replysize == d.hdr[1] + d.hdr[2] * 256
        reply == d.body
    IN  /\ wire' = wire \o <<ReadEv(2, d.hdr), ReadEv(replysize, reply)>>
        /\ replywaits' = replywaits + 1
        /\ IF NxtIsAcknowledged(reply)
           THEN /\ pc' = "nxt_loop"
                /\ idx' = idx + 1
                /\ result' = result
           ELSE IF NxtIsRejected(reply)
           THEN /\ pc' = "done"
                /\ result' = Returned(PyNone, "CompanionProgramNotRunning")
                /\ idx' = idx
           ELSE /\ pc' = "nxt_poll"
                /\ idx' = idx
                /\ result' = result

\* Mutant of NxtReceive: rotate gives up (returns None) at the second reply
\* that neither rejects nor acknowledges.
NxtReceive_GivesUp(d) ==
    LET replysize == d.hdr[1] + d.hdr[2] * 256
        reply == d.body
    IN  /\ wire' = wire \o <<ReadEv(2, d.hdr), ReadEv(replysize, reply)>>
        /\ replywaits' = replywaits + 1
        /\ IF NxtIsRejected(reply)
           THEN /\ pc' = "done"
                /\ result' = Returned(PyNone, "CompanionProgramNotRunning")
                /\ idx' = idx
           ELSE IF NxtIsAcknowledged(reply)
           THEN /\ pc' = "nxt_loop"
                /\ idx' = idx + 1
                /\ result' = result
           ELSE IF replywaits >= 1
           THEN /\ pc' = "done"
                /\ result' = Returned(PyNone, "GaveUp")
                /\ idx' = idx
           ELSE /\ pc' = "nxt_poll"
                /\ idx' = idx
                /\ result' = result

\* The two reads and the tests on the reply: rejected (return None),
\* acknowledged (break, next motor), or neither (poll again).
NxtReceive(d) ==
    LET replysize == d.hdr[1] + d.hdr[2] * 256
        reply == d.body
    IN  /\ wire' = wire \o <<ReadEv(2, d.hdr), ReadEv(replysize, reply)>>
        /\ replywaits' = replywaits + 1
        /\ IF NxtIsRejected(reply)
           THEN /\ pc' = "done"
                /\ result' = Returned(PyNone, "CompanionProgramNotRunning")
                /\ idx' = idx
           ELSE IF NxtIsAcknowledged(reply)
           THEN /\ pc' = "nxt_loop"
                /\ idx' = idx + 1
                /\ result' = result
           ELSE /\ pc' = "nxt_poll"
                /\ idx' = idx
                /\ result' = result

NxtReplyAck ==
    /\ pc = "nxt_reply"
    /\ \E d \in NxtAckDeliveries : NxtReceive(d)
    /\ UNCHANGED <<dev, portOpen, relposition, lastTarget, cur, odd>>

NxtReplyReject ==
    /\ pc = "nxt_reply"
    /\ \E d \in NxtRejectDeliveries : NxtReceive(d)
    /\ UNCHANGED <<dev, portOpen, relposition, lastTarget, cur, odd>>

NxtReplyOdd ==
    /\ pc = "nxt_reply"
    /\ odd < MaxIdlePolls
    /\ odd' = odd + 1
    /\ \E d \in NxtOddDeliveries : NxtReceive(d)
    /\ UNCHANGED <<dev, portOpen, relposition, lastTarget, cur>>

NxtReplyTimeout ==
    /\ pc = "nxt_reply"
    /\ \E d \in NxtHeaderTimeouts :
          wire' = Append(wire, ReadEv(2, d.hdr))
    /\ pc' = "done"
    /\ result' = Raised("IndexError")
    /\ UNCHANGED <<dev, portOpen, relposition, lastTarget, cur, idx, replywaits, odd>>

(***************************************************************************)
(* NXT.rotateto                                                             *)
(***************************************************************************)
NxtRotateTo ==
    /\ dev = "NXT"
    /\ pc = "idle"
    /\ \E n \in 0..(MaxArgs - 1), speed \in Speeds :
         \E args \in ArgLists(Positions, n) :
            IF NxtTooMany(args)
            THEN /\ TooMany("rotateto", n)
                 /\ UNCHANGED <<relposition, lastTarget>>
            ELSE LET relpos == NormalizePositions(args, 3)
                     deltas == Deltas(dev, relpos, relposition)
                 IN  /\ relposition' = NewRelPosition(relpos, relposition)
                     /\ lastTarget' = Supplied(args, lastTarget)
                     /\ NxtRotateBody([i \in 1..3 |-> Some(deltas[i])], speed,
                                      "rotateto", relpos, relposition)
    /\ UNCHANGED <<dev, portOpen>>

(***************************************************************************)
(* The call has ended; the caller may make the next one.                    *)
(***************************************************************************)
Return ==
    /\ pc = "done"
    /\ pc' = "idle"
    /\ cur' = NoCall
    /\ idx' = 0
    /\ replywaits' = 0
    /\ wire' = <<>>
    /\ odd' = 0
    /\ result' = Pending
    /\ UNCHANGED <<dev, portOpen, relposition, lastTarget>>

\* EV3.disconnect, NXT.disconnect
Disconnect ==
    /\ pc = "idle"
    /\ portOpen
    /\ portOpen' = FALSE
    /\ UNCHANGED <<dev, relposition, lastTarget, pc, cur, idx, replywaits,
                   wire, odd, result>>

\* The steps inside a call, shared by every way of starting one.
Step ==
    \/ Ev3RotateSimult
    \/ Ev3RotateSeq
    \/ Ev3ReplyFull
    \/ Ev3ReplyOdd
    \/ Ev3ReplyTimeout
    \/ NxtRotateLoop
    \/ NxtPoll
    \/ NxtReplyAck
    \/ NxtReplyReject
    \/ NxtReplyOdd
    \/ NxtReplyTimeout
    \/ Return
    \/ Disconnect

\* Sessions driven through rotate.
Next ==
    \/ Ev3Rotate
    \/ NxtRotate
    \/ Step

Spec == Init /\ [][Next]_vars

\* NXT sessions driven through rotate, with the polling loop running on:
\* once rotate is at the top of its while True loop,
\* port.write(checkmailbox) is executed.
InitNxt ==
    /\ Init
    /\ dev = "NXT"

NextNxt ==
    \/ NxtRotate
    \/ NxtRotateLoop
    \/ NxtPoll
    \/ NxtReplyAck
    \/ NxtReplyReject
    \/ NxtReplyOdd
    \/ NxtReplyTimeout
    \/ Return
    \/ Disconnect

SpecPoll == InitNxt /\ [][NextNxt]_vars /\ WF_vars(NxtPoll)

\* Sessions driven through rotateto.
NextRel ==
    \/ Ev3RotateTo
    \/ NxtRotateTo
    \/ Step

SpecRel == Init /\ [][NextRel]_vars

(***************************************************************************)
(* The speed scaling of a simultaneous rotate (the list moves), applied to  *)
(* every speed 0..100 and a range of angle vectors.                         *)
(***************************************************************************)
ScaleVectors ==
    [1..4 -> (-MaxScaleAngle)..MaxScaleAngle] \cup {<<90, -45, 0, 0>>}

InitScale ==
    /\ dev = "EV3"
    /\ portOpen = TRUE
    /\ relposition = <<0, 0, 0, 0>>
    /\ lastTarget = <<0, 0, 0, 0>>
    /\ pc = "ev3_moves"
    /\ \E motors \in ScaleVectors, speed \in 0..MaxSpeedPercent :
          cur = [op |-> "rotate", argc |-> 4, motors |-> motors,
                 speed |-> speed, simult |-> TRUE, relpos |-> <<>>,
                 before |-> <<>>]
    /\ idx = 0
    /\ replywaits = 0
    /\ wire = <<>>
    /\ odd = 0
    /\ result = Pending

\* moves: the triplets built before the message is assembled.
Ev3BuildMoves ==
    /\ pc = "ev3_moves"
    /\ pc' = "moved"
    /\ result' = Returned(Ev3Moves(cur.motors, cur.speed), "none")
    /\ UNCHANGED <<dev, portOpen, relposition, lastTarget, cur, idx,
                   replywaits, wire, odd>>

NextScale == Ev3BuildMoves

SpecScale == InitScale /\ [][NextScale]_vars

(***************************************************************************)
(* EV3.spin, EV3.stop and EV3.send called by the user.  In these calls      *)
(* cur.motors holds the positional arguments: the speeds of spin (None      *)
(* kept), the message of send.                                              *)
(***************************************************************************)
\* Speeds a caller passes to spin.
SpinSpeeds == {-50, 0, 50}

\* Messages a caller passes to send: empty, short, and longer than 255
\* bytes.
SendMessages == { <<>>, <<1, 2, 3>>, [i \in 1..300 |-> 0] }

\* spin: missing trailing speeds become None.
NormalizeSpeeds(args, width) ==
    [i \in 1..width |-> IF i <= Len(args) THEN args[i] ELSE NoneV]

\* Mutant of Ev3SpinSubmessage: speed 0 is not a special case; the motor is
\* started at power 0.
Ev3SpinSubmessage_NoStopCase(motor, speed) ==
    <<167, 0, Pow2(motor), IF speed < 0 THEN 63 ELSE 1>>
    \o <<165, 0, Pow2(motor)>> \o pack2b(Abs(speed))
    \o <<166, 0, Pow2(motor)>>

\* The submessage of one motor: stop it (speed 0), or set polarity and
\* power and start it.
Ev3SpinSubmessage(motor, speed) ==
    IF speed = 0
    THEN <<163, 0, Pow2(motor), 1>>
    ELSE <<167, 0, Pow2(motor), IF speed < 0 THEN 63 ELSE 1>>
         \o <<165, 0, Pow2(motor)>> \o pack2b(Abs(speed))
         \o <<166, 0, Pow2(motor)>>

RECURSIVE Ev3SpinFrom(_, _)
Ev3SpinFrom(speeds, m) ==
    IF m >= Len(speeds) THEN <<>>
    ELSE (IF speeds[m + 1] = NoneV THEN <<>>
          ELSE Ev3SpinSubmessage(m, speeds[m + 1][1]))
         \o Ev3SpinFrom(speeds, m + 1)

Ev3SpinMessage(speeds) == <<0, 0, 0, 0, 0>> \o Ev3SpinFrom(speeds, 0)

Ev3SpinBody(args, op) ==
    /\ cur' = [op |-> op, argc |-> Len(args),
               motors |-> IF Ev3TooMany(args) THEN <<>>
                          ELSE NormalizeSpeeds(args, 4),
               speed |-> 0, simult |-> FALSE, relpos |-> <<>>,
               before |-> <<>>]
    /\ wire' = <<>>
    /\ odd' = 0
    /\ idx' = 0
    /\ replywaits' = 0
    /\ IF Ev3TooMany(args)
       THEN /\ pc' = "done"
            /\ result' = Returned(PyNone, "TooManyActuators")
       ELSE /\ pc' = "ev3_spin"
            /\ result' = Pending

Ev3Spin ==
    /\ dev = "EV3"
    /\ pc = "idle"
    /\ \E n \in 0..MaxArgs :
         \E args \in ArgLists(SpinSpeeds, n) : Ev3SpinBody(args, "spin")
    /\ UNCHANGED <<dev, portOpen, relposition, lastTarget>>

\* Mutant of Ev3Stop: the fourth motor is left out.
Ev3Stop_ThreeMotors ==
    /\ dev = "EV3"
    /\ pc = "idle"
    /\ Ev3SpinBody(<<Some(0), Some(0), Some(0)>>, "stop")
    /\ UNCHANGED <<dev, portOpen, relposition, lastTarget>>

\* stop: self.spin(0, 0, 0, 0)
Ev3Stop ==
    /\ dev = "EV3"
    /\ pc = "idle"
    /\ Ev3SpinBody(<<Some(0), Some(0), Some(0), Some(0)>>, "stop")
    /\ UNCHANGED <<dev, portOpen, relposition, lastTarget>>

\* spin: self.send(message)
Ev3SpinSend ==
    /\ pc = "ev3_spin"
    /\ Ev3Send(Ev3SpinMessage(cur.motors))
    /\ UNCHANGED <<dev, portOpen, relposition, lastTarget, cur, odd, replywaits>>

\* send called with the user's own bytes.
Ev3SendCall ==
    /\ dev = "EV3"
    /\ pc = "idle"
    /\ \E message \in SendMessages :
          cur' = [op |-> "send", argc |-> 1, motors |-> message, speed |-> 0,
                  simult |-> FALSE, relpos |-> <<>>, before |-> <<>>]
    /\ wire' = <<>>
    /\ odd' = 0
    /\ idx' = 0
    /\ replywaits' = 0
    /\ pc' = "ev3_send"
    /\ result' = Pending
    /\ UNCHANGED <<dev, portOpen, relposition, lastTarget>>

Ev3SendStart ==
    /\ pc = "ev3_send"
    /\ Ev3Send(cur.motors)
    /\ UNCHANGED <<dev, portOpen, relposition, lastTarget, cur, odd, replywaits>>

InitEv3 ==
    /\ Init
    /\ dev = "EV3"

\* EV3 sessions driven through rotate, spin, stop and send.
NextEv3 ==
    \/ Ev3Rotate
    \/ Ev3Spin
    \/ Ev3Stop
    \/ Ev3SendCall
    \/ Ev3RotateSimult
    \/ Ev3RotateSeq
    \/ Ev3SpinSend
    \/ Ev3SendStart
    \/ Ev3ReplyFull
    \/ Ev3ReplyOdd
    \/ Ev3ReplyTimeout
    \/ Return
    \/ Disconnect

SpecEv3 == InitEv3 /\ [][NextEv3]_vars

(***************************************************************************)
(* getstepper: the waypoints between a start and an end vector.  The code   *)
(* adds the float increment delta / steps to the running position once per  *)
(* step and rounds position + 1e-10; the position after k steps is          *)
(* start + k * delta / steps up to a float error far below 1e-10, so its    *)
(* rounding is that of the exact fraction with a tie taken upward.  Here    *)
(* the fraction is kept exact: numerator over steps.                        *)
(***************************************************************************)
\* val if val is not None else 0
NoneToZero(list) ==
    [i \in 1..Len(list) |-> IF list[i] = NoneV THEN 0 ELSE list[i][1]]

\* start and end as parsed from the one or two lists of the call.
StepperStart(lists) == IF Len(lists) = 2 THEN lists[1] ELSE <<Some(0)>>

StepperEnd(lists) == IF Len(lists) = 2 THEN lists[2] ELSE lists[1]

\* Mutant of ResizeStart: entries of start beyond end's length are kept.
ResizeStart_KeepsExtra(start, n) ==
    [i \in 1..Max(n, Len(start)) |->
        IF i <= Len(start) THEN NoneToZero(start)[i] ELSE 0]

\* start cut to end's length, then padded with zeros to it.
ResizeStart(start, n) ==
    [i \in 1..n |-> IF i <= Len(start) THEN NoneToZero(start)[i] ELSE 0]

\* round(num / den + 1e-10) for den > 0: the nearest integer, a tie upward.
RoundEpsilon(num, den) == (2 * num + den) \div (2 * den)

\* Mutant of StepperWaypoint: the increment is an integer quotient
\* (delta // steps).
StepperWaypoint_IntegerIncrement(start, delta, steps, k) ==
    [m \in 1..Len(delta) |-> start[m] + k * (delta[m] \div steps)]

\* The waypoint appended in iteration k - 1 of the loop.
StepperWaypoint(start, delta, steps, k) ==
    [m \in 1..Len(delta) |->
        RoundEpsilon(start[m] * steps + k * delta[m], steps)]

\* Mutant of StepperWaypoints: the loop stops one step early.
StepperWaypoints_OneShort(start, delta, steps) ==
    <<start>> \o [k \in 1..(steps - 1) |->
                     StepperWaypoint(start, delta, steps, k)]

\* aggregator: start, then one waypoint per step.
StepperWaypoints(start, delta, steps) ==
    <<start>> \o [k \in 1..steps |-> StepperWaypoint(start, delta, steps, k)]

\* getstepper(*lists): max() of an empty list raises ValueError, and
\* delta[m] / steps raises ZeroDivisionError when steps is 0.
GetStepperResult(lists) ==
    LET end == NoneToZero(StepperEnd(lists))
        motors == Len(end)
        start == ResizeStart(StepperStart(lists), motors)
        delta == [m \in 1..motors |-> end[m] - start[m]]
        steps == MaxAbs(delta)
    IN  IF motors = 0 THEN Raised("ValueError")
        ELSE IF steps = 0 THEN Raised("ZeroDivisionError")
        ELSE Returned(StepperWaypoints(start, delta, steps), "none")

\* The vectors handed to getstepper, None entries included.
StepVectors ==
    UNION { [1..n -> {Some(v) : v \in (-MaxStepCoord)..MaxStepCoord}
                     \cup {NoneV}] : n \in 0..MaxStepLen }

\* Calls with one list (end) or two (start, end); the documented calls
\* getstepper([0, 0], [10, -3]) and getstepper([], [5]) among them.
StepperCalls ==
    { <<end>> : end \in StepVectors }
    \cup (StepVectors \X StepVectors)
    \cup { << <<Some(0), Some(0)>>, <<Some(10), Some(-3)>> >>,
           << <<>>, <<Some(5)>> >> }

\* In a getstepper call cur.motors holds the lists passed.
InitStepper ==
    /\ dev = "EV3"
    /\ portOpen = TRUE
    /\ relposition = <<0, 0, 0, 0>>
    /\ lastTarget = <<0, 0, 0, 0>>
    /\ pc = "getstepper"
    /\ \E lists \in StepperCalls :
          cur = [op |-> "getstepper", argc |-> Len(lists), motors |-> lists,
                 speed |-> 0, simult |-> FALSE, relpos |-> <<>>,
                 before |-> <<>>]
    /\ idx = 0
    /\ replywaits = 0
    /\ wire = <<>>
    /\ odd = 0
    /\ result = Pending

GetStepper ==
    /\ pc = "getstepper"
    /\ pc' = "stepped"
    /\ result' = GetStepperResult(cur.motors)
    /\ UNCHANGED <<dev, portOpen, relposition, lastTarget, cur, idx,
                   replywaits, wire, odd>>

NextStepper == GetStepper

SpecStepper == InitStepper /\ [][NextStepper]_vars

(***************************************************************************)
(* The operand encoders called with a number of their own: pack1b ..        *)
(* pack5b(value), the value given in halves (value = halves / 2), so that   *)
(* round() has ties to settle.                                              *)
(***************************************************************************)
\* round(value)
PackRound(halves) == RoundHalfEven(halves, 2)

\* bytes((round(value),)): bytes() raises ValueError unless 0 <= x < 256.
pack1b(value) ==
    IF value \in 0..255 THEN Returned(PyBytes(<<value>>), "none")
    ELSE Raised("ValueError")

PackForms == {"pack1b", "pack2b", "pack3b", "pack5b"}

Pack(form, halves) ==
    LET value == PackRound(halves)
    IN  CASE form = "pack1b" -> pack1b(value)
          [] form = "pack2b" -> Returned(PyBytes(pack2b(value)), "none")
          [] form = "pack3b" -> Returned(PyBytes(pack3b(value)), "none")
          [] form = "pack5b" -> Returned(PyBytes(pack5b(value)), "none")

\* Values around 0 in steps of one half, and integers at and beyond the
\* limits of the 8- and 16-bit forms.
PackHalves ==
    ((-MaxPackHalves)..MaxPackHalves)
    \cup { 2 * v : v \in {75, 127, 128, 255, 256, 540, 32767, 32768, 65535,
                          65536, 70000, -128, -129, -256, -32768, -32769,
                          -70000} }

\* In a call of an encoder cur.motors holds the value, in halves.
InitPack ==
    /\ dev = "EV3"
    /\ portOpen = TRUE
    /\ relposition = <<0, 0, 0, 0>>
    /\ lastTarget = <<0, 0, 0, 0>>
    /\ pc = "pack"
    /\ \E form \in PackForms, halves \in PackHalves :
          cur = [op |-> form, argc |-> 1, motors |-> <<halves>>,
                 speed |-> 0, simult |-> FALSE, relpos |-> <<>>,
                 before |-> <<>>]
    /\ idx = 0
    /\ replywaits = 0
    /\ wire = <<>>
    /\ odd = 0
    /\ result = Pending

PackValue ==
    /\ pc = "pack"
    /\ pc' = "packed"
    /\ result' = Pack(cur.op, cur.motors[1])
    /\ UNCHANGED <<dev, portOpen, relposition, lastTarget, cur, idx,
                   replywaits, wire, odd>>

NextPack == PackValue

SpecPack == InitPack /\ [][NextPack]_vars

(***************************************************************************)
(* stop() next to spin(0, 0, 0, 0), in sessions whose relative positions    *)
(* rotateto has moved.                                                      *)
(***************************************************************************)
\* spin(0, 0, 0, 0) called by the user.
Ev3SpinZeros ==
    /\ dev = "EV3"
    /\ pc = "idle"
    /\ Ev3SpinBody(<<Some(0), Some(0), Some(0), Some(0)>>, "spin")
    /\ UNCHANGED <<dev, portOpen, relposition, lastTarget>>

NextStop ==
    \/ Ev3RotateTo
    \/ Ev3Stop
    \/ Ev3SpinZeros
    \/ Ev3RotateSimult
    \/ Ev3RotateSeq
    \/ Ev3SpinSend
    \/ Ev3ReplyFull
    \/ Ev3ReplyOdd
    \/ Ev3ReplyTimeout
    \/ Return
    \/ Disconnect

SpecStop == InitEv3 /\ [][NextStop]_vars

(***************************************************************************)
(* Reading the record of port calls.                                        *)
(***************************************************************************)
IsWrite(e) == e.op = "write"

IsRead(e) == e.op = "read"

\* The 0-based indexes of the nonzero motors, ascending.
RECURSIVE NonzeroFrom(_, _)
NonzeroFrom(motors, m) ==
    IF m >= Len(motors) THEN <<>>
    ELSE (IF motors[m + 1] # 0 THEN <<m>> ELSE <<>>)
         \o NonzeroFrom(motors, m + 1)

Nonzero(motors) == NonzeroFrom(motors, 0)

\* The signed value of the four bytes after the tag of a 5-byte constant
\* that starts at position p of b.
Signed32At(b, p) ==
    LET u == b[p + 1] + 256 * b[p + 2] + 65536 * b[p + 3]
        hi == b[p + 4]
    IN  IF hi >= 128 THEN u + 16777216 * (hi - 256) ELSE u + 16777216 * hi

WritePositions(w) == {j \in 1..Len(w) : IsWrite(w[j])}

\* A read of the 2-byte length that got both bytes, followed by the read of
\* the payload of that length: the reply to the write at position j.
ReplyReadAfter(w, j) ==
    /\ j + 2 <= Len(w)
    /\ IsRead(w[j + 1]) /\ w[j + 1].n = 2 /\ Len(w[j + 1].data) = 2
    /\ IsRead(w[j + 2])
    /\ w[j + 2].n = w[j + 1].data[1] + 256 * w[j + 1].data[2]

Ev3SeqCall ==
    /\ dev = "EV3"
    /\ cur.op = "rotate"
    /\ ~cur.simult
    /\ cur.argc <= 4

\* The sequential message of one motor, read off its bytes: the length
\* prefix, the header, polarity, run with speed and angle, start, wait.
IsSeqFrameOf(b, motor, speed, angle) ==
    /\ Len(b) = 38
    /\ SubSeq(b, 1, 7) = <<36, 0, 0, 0, 0, 0, 0>>
    /\ SubSeq(b, 8, 11) = <<167, 0, Pow2(motor), IF angle < 0 THEN 63 ELSE 1>>
    /\ SubSeq(b, 12, 16) = <<174, 0, Pow2(motor), 129, speed % 256>>
    /\ SubSeq(b, 17, 21) = <<131, 0, 0, 0, 0>>
    /\ b[22] = 131 /\ Signed32At(b, 22) = angle
    /\ SubSeq(b, 27, 32) = <<131, 0, 0, 0, 0, 1>>
    /\ SubSeq(b, 33, 35) = <<166, 0, Pow2(motor)>>
    /\ b[36] = 170

\* C1: in an EV3 sequential rotate the port calls come in groups of one
\* write and the two reads of its reply; the k-th write is the message of
\* the k-th nonzero motor in ascending index order, so motors with angle 0
\* (or omitted) get none; a write is made only after the reply to the
\* write before it has been read; and a rotate that returns on an open port
\* has written one message for every nonzero motor.
C1_SequentialOneMessagePerMotorInOrder ==
    Ev3SeqCall =>
        LET nz == Nonzero(cur.motors)
            W == WritePositions(wire)
        IN  /\ \A j \in 1..Len(wire) : IsWrite(wire[j]) <=> (j % 3 = 1)
            /\ Cardinality(W) <= Len(nz)
            /\ \A j \in W :
                  LET k == (j + 2) \div 3
                  IN  /\ IsSeqFrameOf(wire[j].data, nz[k], cur.speed,
                                      cur.motors[nz[k] + 1])
                      /\ j > 1 => ReplyReadAfter(wire, j - 3)
            /\ (pc = "done" /\ result.kind = "returned" /\ portOpen)
                  => /\ Cardinality(W) = Len(nz)
                     /\ Len(wire) = 3 * Len(nz)

\* Witness of C1: a returned sequential rotate of motors 0 and 2, motor 1
\* skipped with angle 0, two messages and their replies on record.
C1_Witness ==
    /\ Ev3SeqCall
    /\ pc = "done"
    /\ result.kind = "returned"
    /\ cur.motors = <<90, 0, -45, 0>>
    /\ Len(wire) = 6

NxtRotateCall ==
    /\ dev = "NXT"
    /\ cur.op = "rotate"
    /\ cur.argc <= 3

IsPoll(e) == IsWrite(e) /\ e.data = NxtCheckMailbox

IsMotorWrite(e) == IsWrite(e) /\ e.data # NxtCheckMailbox

MotorWritePositions(w) == {j \in 1..Len(w) : IsMotorWrite(w[j])}

\* The three frames of one motor, read off the bytes of one write.
IsNxtFramesOf(b, motor, angle, speed) ==
    /\ Len(b) = 33
    /\ \A f \in 0..2 :
          /\ SubSeq(b, 11 * f + 1, 11 * f + 6) = <<9, 0, 128, 9, 0, 5>>
          /\ b[11 * f + 11] = 0
    /\ SubSeq(b, 7, 10) = PackF(motor + 1)
    /\ SubSeq(b, 18, 21) = PackF(angle)
    /\ SubSeq(b, 29, 32) = PackF(speed)

\* C2: in an NXT rotate the k-th write of command frames carries the motor
\* number, angle and speed of the k-th nonzero motor in ascending index
\* order; it is the first port call of that motor, so it precedes the motor's
\* first mailbox check; every later write of command frames comes directly
\* after the read of a reply that contains the acknowledgment token; and a
\* rotate that returns without an error has written the frames of every
\* nonzero motor.
C2_NxtFramesOnlyAfterAcknowledgment ==
    NxtRotateCall =>
        LET nz == Nonzero(cur.motors)
            M == MotorWritePositions(wire)
        IN  /\ Cardinality(M) <= Len(nz)
            /\ wire # <<>> => 1 \in M
            /\ \A j \in M :
                  LET k == Cardinality({i \in M : i <= j})
                  IN  /\ IsNxtFramesOf(wire[j].data, nz[k],
                                       cur.motors[nz[k] + 1], cur.speed)
                      /\ j > 1 => /\ IsRead(wire[j - 1])
                                  /\ Contains(wire[j - 1].data, NxtAckToken)
                                  /\ IsPoll(wire[j - 3])
                      /\ j < Len(wire) => IsPoll(wire[j + 1])
            /\ \A j \in 1..Len(wire) :
                  IsPoll(wire[j]) => \E i \in M : i < j
            /\ (pc = "done" /\ result = Returned(PyNone, "none"))
                  => Cardinality(M) = Len(nz)

\* Witness of C2: a returned rotate of motors 0 and 2 whose first motor was
\* acknowledged only at its second mailbox check.
C2_Witness ==
    /\ NxtRotateCall
    /\ pc = "done"
    /\ result = Returned(PyNone, "none")
    /\ cur.motors = <<90, 0, -45, 0>>
    /\ Cardinality(MotorWritePositions(wire)) = 2
    /\ Len(wire) = 11

\* The port calls of the motor being polled: those after the last write of
\* command frames.
LastMotorWrite(w) ==
    CHOOSE j \in MotorWritePositions(w) :
        \A i \in MotorWritePositions(w) : i <= j

Segment(w) == SubSeq(w, LastMotorWrite(w) + 1, Len(w))

PollCount(seg) == Cardinality({j \in 1..Len(seg) : IsPoll(seg[j])})

\* The replies read in a segment: the payload reads (those that follow the
\* read of the two length bytes).
ReplyPositions(seg) ==
    {j \in 2..Len(seg) : IsRead(seg[j]) /\ IsRead(seg[j - 1])}

\* The position (1, 2, ...) of the reply read at place j of the segment.
ReplyRank(seg, j) == Cardinality({i \in ReplyPositions(seg) : i <= j})

\* The claim's tests: the reply is the 3-byte signature; the reply contains
\* the token.
EqualsSignature(reply) == reply = <<2, 19, 236>>

BeginsWithSignature(reply) ==
    Len(reply) >= 3 /\ SubSeq(reply, 1, 3) = <<2, 19, 236>>

HasToken(reply) == Contains(reply, NxtAckToken)

\* The sub-command of the current motor has resolved: acknowledged (rotate
\* is back at the loop over the motors) or rejected.
Resolved ==
    /\ dev = "NXT"
    /\ cur.op \in {"rotate", "rotateto"}
    /\ MotorWritePositions(wire) # {}
    /\ \/ pc = "nxt_loop"
       \/ pc = "done" /\ result.kind = "returned"

Polling ==
    /\ dev = "NXT"
    /\ pc \in {"nxt_poll", "nxt_reply"}

\* C3 as stated: when a sub-command resolves, the mailbox checks written
\* for it number the position of the first reply that is the rejection
\* signature or contains the acknowledgment token.
C3_Original_PollsUntilSignatureOrToken ==
    Resolved =>
        LET seg == Segment(wire)
            R == ReplyPositions(seg)
        IN  \E j \in R :
              /\ EqualsSignature(seg[j].data) \/ HasToken(seg[j].data)
              /\ \A i \in R : i < j =>
                    ~(EqualsSignature(seg[i].data) \/ HasToken(seg[i].data))
              /\ PollCount(seg) = ReplyRank(seg, j)

\* C3, amended: the mailbox checks written for one sub-command number the
\* position of the first reply that begins with the rejection signature or
\* contains the acknowledgment token.  While polling, no reply read so far
\* does either, and each of them was followed by one more check: the checks
\* number the replies, plus the one whose reply is awaited.  That first
\* reply is the last port call of the sub-command, and replywaits counts it.
C3_PollsUntilFirstDecidingReply ==
    /\ Resolved =>
          LET seg == Segment(wire)
              R == ReplyPositions(seg)
          IN  /\ Len(seg) \in R
              /\ BeginsWithSignature(seg[Len(seg)].data)
                    \/ HasToken(seg[Len(seg)].data)
              /\ \A i \in R : i < Len(seg) =>
                    ~(BeginsWithSignature(seg[i].data) \/ HasToken(seg[i].data))
              /\ PollCount(seg) = Cardinality(R)
              /\ 3 * PollCount(seg) = Len(seg)
              /\ replywaits = PollCount(seg)
              /\ BeginsWithSignature(seg[Len(seg)].data)
                    <=> result.err = "CompanionProgramNotRunning"
    /\ Polling =>
          LET seg == Segment(wire)
              R == ReplyPositions(seg)
          IN  /\ \A i \in R :
                    ~(BeginsWithSignature(seg[i].data) \/ HasToken(seg[i].data))
              /\ PollCount(seg) =
                    Cardinality(R) + (IF pc = "nxt_reply" THEN 1 ELSE 0)

\* Witness of C3: two replies that decide nothing, then an acknowledging
\* one: acknowledged after exactly three mailbox checks.
C3_Witness ==
    /\ Resolved
    /\ pc = "nxt_loop"
    /\ PollCount(Segment(wire)) = 3
    /\ replywaits = 3
    /\ HasToken(wire[Len(wire)].data)

\* C4: a mailbox reply equal to the 3-byte rejection signature is the last
\* port call of the rotate call: no mailbox check and no command frames
\* follow it, and rotate has returned None with the error logged.
C4_RejectionStopsTheCall ==
    (dev = "NXT" /\ cur.op \in {"rotate", "rotateto"}) =>
        \A j \in 2..Len(wire) :
            (IsRead(wire[j]) /\ IsRead(wire[j - 1])
                /\ wire[j].data = <<2, 19, 236>>)
            => /\ j = Len(wire)
               /\ pc = "done"
               /\ result = Returned(PyNone, "CompanionProgramNotRunning")

\* Witness of C4: the first motor is rejected at its first mailbox check
\* while a later motor still has an angle to turn.
C4_Witness ==
    /\ NxtRotateCall
    /\ pc = "done"
    /\ Len(wire) = 4
    /\ wire[4].data = <<2, 19, 236>>
    /\ cur.motors[1] # 0
    /\ cur.motors[3] # 0

\* C5: a rotate with more angles than the device class has motors (4 on
\* the EV3, 3 on the NXT) has ended at once: None returned, the error
\* logged, and no port call made.
C5_TooManyAnglesWritesNothing ==
    (cur.op = "rotate" /\ cur.argc > Width(dev)) =>
        /\ pc = "done"
        /\ result = Returned(PyNone, "TooManyActuators")
        /\ wire = <<>>

\* Witness of C5: five angles, simultaneous mode, on the EV3.
C5_Witness ==
    /\ dev = "EV3"
    /\ cur.op = "rotate"
    /\ cur.argc = 5
    /\ cur.simult
    /\ pc = "done"

Ev3SimultCall ==
    /\ dev = "EV3"
    /\ cur.op = "rotate"
    /\ cur.simult
    /\ cur.argc <= 4

\* C6 as stated: a simultaneous EV3 rotate whose angles are all 0 or
\* omitted makes no port call.
C6_Original_AllZeroSimultSendsNothing ==
    (Ev3SimultCall /\ Nonzero(cur.motors) = <<>>) => wire = <<>>

\* The group of the g-th active motor in a simultaneous message b, read off
\* its bytes: set-polarity, then run-to-target with speed and angle.
IsSimultGroupOf(b, g, motor, speed, angle) ==
    LET off == 7 + 25 * (g - 1)
    IN  /\ SubSeq(b, off + 1, off + 4) =
              <<167, 0, Pow2(motor), IF angle >= 0 THEN 1 ELSE 63>>
        /\ SubSeq(b, off + 5, off + 9) = <<174, 0, Pow2(motor), 129, speed>>
        /\ SubSeq(b, off + 10, off + 14) = <<131, 0, 0, 0, 0>>
        /\ b[off + 15] = 131 /\ Signed32At(b, off + 15) = angle
        /\ SubSeq(b, off + 20, off + 25) = <<131, 0, 0, 0, 0, 1>>

\* C7: a simultaneous EV3 rotate with a nonzero angle makes at most one
\* write, and it is its first port call; the message written is the length
\* prefix, five zero bytes, one polarity group and one run-to-target group
\* per nonzero motor in ascending index order, and a trailing wait opcode;
\* when rotate has returned on an open port it has made that write and read
\* one reply (its length, then its payload) and nothing else.
C7_SimultOneMessageOneReply ==
    (Ev3SimultCall /\ Nonzero(cur.motors) # <<>>) =>
        LET nz == Nonzero(cur.motors)
            k == Len(nz)
        IN  /\ \A j \in 1..Len(wire) : IsWrite(wire[j]) <=> j = 1
            /\ Len(wire) <= 3
            /\ wire # <<>> =>
                  LET b == wire[1].data
                  IN  /\ Len(b) = 10 + 25 * k
                      /\ SubSeq(b, 1, 7) = <<8 + 25 * k, 0, 0, 0, 0, 0, 0>>
                      /\ \A g \in 1..k :
                            IsSimultGroupOf(b, g, nz[g],
                                MotorSpeed(cur.speed, cur.motors[nz[g] + 1],
                                           MaxAbs(cur.motors)),
                                cur.motors[nz[g] + 1])
                      /\ b[8 + 25 * k] = 170
            /\ (pc = "done" /\ result.kind = "returned" /\ portOpen)
                  => /\ Len(wire) = 3
                     /\ ReplyReadAfter(wire, 1)

\* Witness of C7: rotate(90, -45, speed=100, simult=True) has returned.
C7_Witness ==
    /\ Ev3SimultCall
    /\ cur.motors = <<90, -45, 0, 0>>
    /\ cur.speed = 100
    /\ pc = "done"
    /\ result = Returned(PyNone, "none")
    /\ Len(wire) = 3

Moved == pc = "moved"

\* The moves built, as a set of positions.
MoveIndexes == 1..Len(result.value)

\* C8: for every speed 0..100 and every angle vector, the moves built are
\* those of the nonzero motors, and the speed of each is at least 1.
C8_SpeedAtLeastOne ==
    Moved =>
        /\ Len(result.value) = Len(Nonzero(cur.motors))
        /\ \A g \in MoveIndexes :
              /\ result.value[g].angle # 0
              /\ result.value[g].speed >= 1

\* Witness of C8: speed 1 with angles 1 and 2: the ratio of motor 0 is 1/2,
\* which rounds to 0, and its speed is 1.
C8_Witness ==
    /\ Moved
    /\ cur.speed = 1
    /\ cur.motors = <<1, 2, 0, 0>>
    /\ result.value[1].speed = 1

\* r is p / q (q > 0) rounded to the nearest integer, a tie going to the
\* even one.
IsRounded(r, p, q) ==
    /\ 2 * Abs(r * q - p) <= q
    /\ 2 * Abs(r * q - p) = q => r % 2 = 0

\* The speed of a move is round(|speed * angle / maxangle|), or 1 when that
\* is 0.
ScaledSpeedOk(move) ==
    \E r \in 0..MaxSpeedPercent :
        /\ IsRounded(r, cur.speed * Abs(move.angle), MaxAbs(cur.motors))
        /\ move.speed = IF r = 0 THEN 1 ELSE r

RotateToCall ==
    /\ cur.op = "rotateto"
    /\ cur.argc <= Width(dev)

\* C10: at every moment of a session driven by rotateto calls, the entry
\* of each motor is the position supplied for it by the most recent accepted
\* call that supplied one (0 if none did); and in each call the angle handed
\* to rotate is the position minus the entry before the call for a supplied
\* position and 0 for an absent one, whose entry is left as it was.
C10_RelPositionIsLastTarget ==
    /\ relposition = lastTarget
    /\ RotateToCall =>
          \A i \in 1..Width(dev) :
              IF cur.relpos[i] = NoneV
              THEN /\ cur.motors[i] = 0
                   /\ relposition[i] = cur.before[i]
              ELSE /\ cur.motors[i] = cur.relpos[i][1] - cur.before[i]
                   /\ relposition[i] = cur.relpos[i][1]

\* Witness of C10: a later call that leaves motor 0 at position 1 by
\* omitting it and takes motor 1 back from 1 to 0.
C10_Witness ==
    /\ RotateToCall
    /\ cur.before[1] = 1
    /\ cur.relpos[1] = NoneV
    /\ relposition[1] = 1
    /\ cur.before[2] = 1
    /\ cur.relpos[2] = Some(0)
    /\ cur.motors[2] = -1

(***************************************************************************)
(* rotateto with too many positions.                                        *)
(***************************************************************************)
TooManyPositionsCall ==
    /\ cur.op = "rotateto"
    /\ cur.argc > Width(dev)

\* C11: a rotateto call with more positions than the device class has
\* motors (more than 4 on the EV3, more than 3 on the NXT) fails with
\* TooManyActuators, leaves every entry of relposition as it was before the
\* call, and makes no port call at all.
C11_TooManyPositionsChangesNothing ==
    TooManyPositionsCall =>
        /\ result = Returned(PyNone, "TooManyActuators")
        /\ relposition = cur.before
        /\ wire = <<>>

\* Witness of C11: a rejected rotateto call in a session whose earlier calls
\* have moved some position away from 0.
C11_Witness ==
    /\ TooManyPositionsCall
    /\ pc = "done"
    /\ \E i \in 1..Width(dev) : relposition[i] # 0
    /\ relposition = cur.before
    /\ wire = <<>>

(***************************************************************************)
(* What rotate hands back to its caller.                                    *)
(***************************************************************************)
\* rotate ends without a return statement when the motion completed: the
\* caller gets None.
RotateCompleted == PyNone

RotateFailures == {"TooManyActuators", "PortClosed",
                   "CompanionProgramNotRunning"}

RotateEnded ==
    /\ cur.op = "rotate"
    /\ pc = "done"

\* C12 as stated: a rotate call that failed (too many angles, port closed
\* at send time, companion program not running) returns to its caller a
\* value that differs from the value of a rotate call whose motion
\* completed.
C12_Original_FailureValueDiffersFromSuccess ==
    (RotateEnded /\ result.err \in RotateFailures) =>
        /\ result.kind = "returned"
        /\ result.value # RotateCompleted

(***************************************************************************)
(* EV3.send.                                                                *)
(***************************************************************************)
Ev3Call == cur.op \in {"rotate", "spin", "stop", "send"}

SendCall == cur.op = "send"

SendEnded == SendCall /\ pc = "done"

\* The length a 2-byte prefix announces, low byte first.
Announced(hdr) == hdr[1] + hdr[2] * 256

\* C13: with the port not open, send logs the error and returns None
\* without any port.write or port.read; so after disconnect no rotate, spin,
\* stop or send call of the EV3 makes a port call.
C13_ClosedPortNoPortCalls ==
    (Ev3Call /\ ~portOpen) =>
        /\ wire = <<>>
        /\ result.kind # "raised"
        /\ SendEnded => result = Returned(PyNone, "PortClosed")
        /\ (pc = "done" /\ cur.argc <= 4
               /\ cur.op \in {"spin", "stop"}) =>
              result = Returned(PyNone, "PortClosed")

\* Witness of C13: a spin call with a speed to set has ended on a closed
\* port.
C13_Witness ==
    /\ cur.op = "spin"
    /\ pc = "done"
    /\ ~portOpen
    /\ cur.argc = 2
    /\ cur.motors[1] = Some(50)
    /\ wire = <<>>
    /\ result.err = "PortClosed"

\* C14: on an open port the port calls of send are, in this order, one
\* write of [len mod 256, len div 256] followed by the message, a read of 2
\* bytes, and a read of exactly the number of bytes those two announce (low
\* byte first); when that number is above 0 and the bytes arrive, send
\* returns them.
C14_SendFramesAndReadsAnnouncedLength ==
    (SendCall /\ portOpen) =>
        /\ Len(wire) <= 3
        /\ Len(wire) >= 1 =>
              wire[1] = WriteEv(<<Len(cur.motors) % 256,
                                  Len(cur.motors) \div 256>> \o cur.motors)
        /\ Len(wire) >= 2 => (IsRead(wire[2]) /\ wire[2].n = 2)
        /\ Len(wire) = 3 =>
              /\ Len(wire[2].data) = 2
              /\ IsRead(wire[3])
              /\ wire[3].n = Announced(wire[2].data)
              /\ pc = "done"
              /\ (wire[3].n > 0 /\ Len(wire[3].data) = wire[3].n) =>
                    result = Returned(PyBytes(wire[3].data), "none")
        /\ (pc = "done" /\ result.kind = "returned") => Len(wire) = 3

\* Witness of C14: send of a message longer than 255 bytes has returned the
\* 3 bytes of the reply.
C14_Witness ==
    /\ SendEnded
    /\ Len(cur.motors) > 255
    /\ Len(wire) = 3
    /\ wire[1].data[1] = 44
    /\ wire[1].data[2] = 1
    /\ wire[3].n = 3
    /\ result = Returned(PyBytes(<<0, 0, 2>>), "none")

\* The reply is missing or shorter than asked for: the read of the length
\* prefix or the read of the payload returned fewer bytes than requested.
ReplyCutShort ==
    \E k \in 1..Len(wire) :
        /\ IsRead(wire[k])
        /\ Len(wire[k].data) < wire[k].n

\* C15 as stated: when the read of the length prefix or of the payload
\* returns fewer bytes than asked for, send returns None to its caller and
\* never ends with an exception.
C15_Original_ShortReplyReturnsNone ==
    (SendEnded /\ ReplyCutShort) => result = Returned(PyNone, "none")

Stepped == pc = "stepped"

\* The two lists of the call hold integers only.
IntegerVectors ==
    /\ cur.argc = 2
    /\ \A j \in 1..2 : \A i \in 1..Len(cur.motors[j]) :
           cur.motors[j][i] # NoneV

\* end, and start brought to end's length, as the spec defines them.
PlanEnd == NoneToZero(StepperEnd(cur.motors))

PlanStart ==
    [i \in 1..Len(PlanEnd) |->
        IF i <= Len(StepperStart(cur.motors))
              /\ StepperStart(cur.motors)[i] # NoneV
        THEN StepperStart(cur.motors)[i][1] ELSE 0]

PlanSteps ==
    MaxAbs([i \in 1..Len(PlanEnd) |-> PlanEnd[i] - PlanStart[i]])

Waypoints == result.value

\* C17 as stated: for every pair of integer start and end vectors of the
\* range, getstepper returns waypoints the last of which equals end in
\* every component.
C17_Original_LastWaypointIsEnd ==
    (Stepped /\ IntegerVectors /\ Len(PlanEnd) >= 1) =>
        /\ result.kind = "returned"
        /\ Len(Waypoints) >= 1
        /\ Waypoints[Len(Waypoints)] = PlanEnd

\* C18 as stated: when start equals end in every component after the
\* normalization (steps is 0), getstepper returns the one waypoint start
\* and does not fail.
C18_Original_NoMovementGivesStart ==
    (Stepped /\ Len(PlanEnd) >= 1 /\ PlanSteps = 0) =>
        result = Returned(<<PlanStart>>, "none")

\* C19: for integer vectors with steps = max |end - start| >= 1, getstepper
\* returns steps + 1 waypoints, the first of which is the normalized start.
C19_StepsPlusOneWaypointsFromStart ==
    (Stepped /\ IntegerVectors /\ PlanSteps >= 1) =>
        /\ result.kind = "returned"
        /\ Len(Waypoints) = PlanSteps + 1
        /\ Waypoints[1] = PlanStart

\* Witness of C19: getstepper([0, 0], [10, -3]) has returned 11 waypoints
\* from [0, 0] to [10, -3].
C19_Witness ==
    /\ Stepped
    /\ cur.motors = << <<Some(0), Some(0)>>, <<Some(10), Some(-3)>> >>
    /\ Len(Waypoints) = 11
    /\ Waypoints[1] = <<0, 0>>
    /\ Waypoints[6] = <<5, -1>>
    /\ Waypoints[11] = <<10, -3>>

\* C20: start is brought to end's length before the planning (entries
\* beyond end's length dropped, missing and None entries taken as 0), so
\* the first waypoint is that start and every waypoint has len(end)
\* components; getstepper([], [5]) plans from [0] and returns the 6
\* waypoints [0] .. [5].
C20_StartResizedToEnd ==
    (Stepped /\ result.kind = "returned") =>
        /\ Waypoints[1] = PlanStart
        /\ \A k \in 1..Len(Waypoints) : Len(Waypoints[k]) = Len(PlanEnd)
        /\ cur.motors = << <<>>, <<Some(5)>> >> =>
              Waypoints = << <<0>>, <<1>>, <<2>>, <<3>>, <<4>>, <<5>> >>

\* Witness of C20: a start longer than end has been cut to end's length.
C20_Witness ==
    /\ Stepped
    /\ result.kind = "returned"
    /\ cur.argc = 2
    /\ Len(cur.motors[1]) > Len(cur.motors[2])
    /\ cur.motors[1][1] = Some(1)
    /\ Waypoints[1] = <<1>>
    /\ Len(Waypoints) = 3

(***************************************************************************)
(* The operand encoders.                                                    *)
(***************************************************************************)
Packed == pc = "packed"

PackedHalves == cur.motors[1]

\* The bits of each form.
FormWidth(form) ==
    CASE form = "pack1b" -> 8
      [] form = "pack2b" -> 8
      [] form = "pack3b" -> 16
      [] form = "pack5b" -> 32

\* The value bytes of an encoded operand: all of the 1-byte form, the bytes
\* after the tag of the others.
ValueBytes(form, b) == IF form = "pack1b" THEN b ELSE Tail(b)

\* Bytes read as a signed little-endian integer.
RECURSIVE UnsignedLE(_)
UnsignedLE(b) == IF b = <<>> THEN 0 ELSE Head(b) + 256 * UnsignedLE(Tail(b))

SignedLE(b) ==
    LET n == Len(b)
        top == b[n]
        low == UnsignedLE(SubSeq(b, 1, n - 1))
    IN  low + Pow2(8 * (n - 1)) * (IF top >= 128 THEN top - 256 ELSE top)

\* v modulo 2^width, read with its sign (every v of the model lies within
\* 32 bits).
Wrapped(v, width) ==
    IF width = 32 THEN v
    ELSE LET m == v % Pow2(width)
         IN  IF m >= Pow2(width - 1) THEN m - Pow2(width) ELSE m

\* C21 as stated: for every integer v each of the four encoders succeeds,
\* and its value bytes, read as a signed little-endian integer of the
\* form's width, give v modulo 2^width with its sign; values out of range
\* wrap and never raise.
C21_Original_EncodersWrapAndRoundTrip ==
    (Packed /\ PackedHalves % 2 = 0) =>
        /\ result.kind = "returned"
        /\ Len(ValueBytes(cur.op, result.value[2])) * 8 = FormWidth(cur.op)
        /\ SignedLE(ValueBytes(cur.op, result.value[2]))
              = Wrapped(PackedHalves \div 2, FormWidth(cur.op))

\* The integer next to k + 1/2 that has the larger magnitude.
AwayFromZero(halves) ==
    IF halves > 0 THEN (halves + 1) \div 2 ELSE (halves - 1) \div 2

\* C27 as stated: an input exactly halfway between two integers is encoded
\* as the one of them with the larger magnitude (0.5 as 1, 2.5 as 3, -2.5
\* as -3).
C27_Original_TiesAwayFromZero ==
    (Packed /\ PackedHalves % 2 = 1) =>
        result = Pack(cur.op, 2 * AwayFromZero(PackedHalves))

(***************************************************************************)
(* EV3.spin and EV3.stop.                                                   *)
(***************************************************************************)
\* An accepted spin call whose message has gone out.
SpinSent ==
    /\ cur.op = "spin"
    /\ cur.argc <= 4
    /\ portOpen
    /\ pc \in {"ev3_reply", "done"}

\* Bytes a speed contributes: none when omitted, a stop opcode (4) when 0,
\* polarity, power and start (12) otherwise.
SpinGroupLen(s) == IF s = NoneV THEN 0 ELSE IF s[1] = 0 THEN 4 ELSE 12

\* Bytes contributed by the motors before motor m (0-based).
RECURSIVE SpinOffset(_, _)
SpinOffset(speeds, m) ==
    IF m = 0 THEN 0
    ELSE SpinOffset(speeds, m - 1) + SpinGroupLen(speeds[m])

IsSpinGroupOf(g, motor, s) ==
    IF s = NoneV THEN g = <<>>
    ELSE IF s[1] = 0 THEN g = <<163, 0, Pow2(motor), 1>>
    ELSE g = <<167, 0, Pow2(motor), IF s[1] < 0 THEN 63 ELSE 1,
               165, 0, Pow2(motor), 129, Abs(s[1]),
               166, 0, Pow2(motor)>>

\* C22: an accepted spin call on an open port writes one message: the
\* length prefix and the 5-byte header, then per motor in ascending order
\* nothing for an omitted speed, the stop opcode 163 with bitmask 2^index for
\* speed 0, and for a nonzero speed the polarity group (63 iff the speed is
\* negative), the power opcode 165 with operand |speed| and the start
\* opcode 166; no run-to-angle (174) and no wait (170) opcode.
C22_SpinOneMessagePerCall ==
    SpinSent =>
        /\ WritePositions(wire) = {1}
        /\ LET b == wire[1].data
               speeds == cur.motors
           IN  /\ Len(b) = 7 + SpinOffset(speeds, 4)
               /\ b[1] + 256 * b[2] = Len(b) - 2
               /\ SubSeq(b, 3, 7) = <<0, 0, 0, 0, 0>>
               /\ \A m \in 0..3 :
                     IsSpinGroupOf(
                        SubSeq(b, 8 + SpinOffset(speeds, m),
                               7 + SpinOffset(speeds, m + 1)),
                        m, speeds[m + 1])
               /\ \A j \in 1..Len(b) : b[j] \notin {170, 174}

\* Witness of C22: spin(-50, None, 0, 50) has ended after its one message.
C22_Witness ==
    /\ SpinSent
    /\ pc = "done"
    /\ cur.motors = <<Some(-50), NoneV, Some(0), Some(50)>>
    /\ wire[1].data = <<33, 0, 0, 0, 0, 0, 0,
                         167, 0, 1, 63, 165, 0, 1, 129, 50, 166, 0, 1,
                         163, 0, 4, 1,
                         167, 0, 8, 1, 165, 0, 8, 129, 50, 166, 0, 8>>
    /\ Len(wire) = 3

\* A stop() call, or a spin(0, 0, 0, 0) call.
StopOrSpinZeros ==
    \/ cur.op = "stop"
    \/ /\ cur.op = "spin"
       /\ cur.argc = 4
       /\ cur.motors = <<Some(0), Some(0), Some(0), Some(0)>>

\* The message carrying a stop opcode for each of the motors 0..3.
StopAllFrame ==
    <<21, 0, 0, 0, 0, 0, 0,
      163, 0, 1, 1, 163, 0, 2, 1, 163, 0, 4, 1, 163, 0, 8, 1>>

\* What either call has written once it is past its send.
StopWrites ==
    /\ pc = "ev3_spin" => wire = <<>>
    /\ pc \in {"ev3_reply", "done"} =>
          IF portOpen
          THEN /\ WritePositions(wire) = {1}
               /\ wire[1] = WriteEv(StopAllFrame)
          ELSE wire = <<>>
    /\ (pc = "done" /\ result.kind = "returned") => result.value = PyNone

\* C23: stop() and spin(0, 0, 0, 0) do the same from the same session
\* state: on an open port each writes the one message with a stop opcode
\* for each of the motors 0..3 (and nothing on a closed port), each returns
\* None, and no step of either call changes relposition.
C23_StopIsSpinZeros ==
    /\ [](StopOrSpinZeros => StopWrites)
    /\ [][(StopOrSpinZeros \/ StopOrSpinZeros') =>
             relposition' = relposition]_vars

\* Witness of C23: stop() has ended, its message written, in a session
\* whose relative positions are not all 0.
C23_Witness ==
    /\ cur.op = "stop"
    /\ pc = "done"
    /\ Len(wire) = 3
    /\ wire[1] = WriteEv(StopAllFrame)
    /\ relposition = <<1, 0, 1, 0>>

(***************************************************************************)
(* The wait opcode that ends an EV3 rotate message.                         *)
(***************************************************************************)
Ev3RotateCall ==
    /\ dev = "EV3"
    /\ cur.op = "rotate"
    /\ cur.argc <= 4

\* The last three bytes of a message.
Trailer(b) == SubSeq(b, Len(b) - 2, Len(b))

\* The union of the bitmasks of a list of motors (0-based indexes).
RECURSIVE MaskOf(_)
MaskOf(motors) ==
    IF motors = <<>> THEN 0 ELSE Pow2(Head(motors)) + MaskOf(Tail(motors))

\* The motors the k-th message of the call commands: the k-th nonzero motor
\* in sequential mode, every nonzero motor in simultaneous mode.
Commanded(k) ==
    IF cur.simult THEN Nonzero(cur.motors) ELSE <<Nonzero(cur.motors)[k]>>

\* C24 as stated: the wait opcode ending a rotate message carries the
\* bitmask of the motors that message commands: 2^index of the one motor
\* in sequential mode, the union over the nonzero motors in simultaneous
\* mode.
C24_Original_WaitMaskOfCommandedMotors ==
    Ev3RotateCall =>
        \A j \in WritePositions(wire) :
            Trailer(wire[j].data) =
                <<170, 0, MaskOf(Commanded((j + 2) \div 3))>>

\* C24, amended: the wait opcode ending a rotate message carries the
\* bitmask 15, all four motors, in sequential and in simultaneous mode,
\* whichever motors the message commands.
C24_WaitMaskAllMotors ==
    Ev3RotateCall =>
        \A j \in WritePositions(wire) :
            /\ Len(wire[j].data) >= 10
            /\ Trailer(wire[j].data) = <<170, 0, 15>>

\* Witness of C24: a sequential rotate of motor 1 alone has written its
\* message, which ends with a wait on all four motors.
C24_Witness ==
    /\ Ev3RotateCall
    /\ ~cur.simult
    /\ cur.motors = <<0, 90, 0, 0>>
    /\ Len(wire) = 3
    /\ IsSeqFrameOf(wire[1].data, 1, cur.speed, 90)
    /\ Trailer(wire[1].data) = <<170, 0, 15>>

(***************************************************************************)
(* The polling loop of NXT.rotate has no bound.                             *)
(***************************************************************************)
\* An NXT rotate call that has written a motor's frames and has not ended
\* with an exception.
NxtMotorStarted ==
    /\ dev = "NXT"
    /\ cur.op = "rotate"
    /\ MotorWritePositions(wire) # {}
    /\ result.kind # "raised"

\* The mailbox checks written and the replies read for the current motor.
PollsWritten == PollCount(Segment(wire))

RepliesRead ==
    LET seg == Segment(wire)
    IN  { seg[j].data : j \in ReplyPositions(seg) }

RepliesReadCount == Cardinality(ReplyPositions(Segment(wire)))

\* rotate is still in the polling loop, N + 1 checks written or the
\* (N + 1)-th about to be, N the replies read so far.
StillPolling ==
    /\ pc \in {"nxt_poll", "nxt_reply"}
    /\ result.kind = "pending"
    /\ PollsWritten = IF pc = "nxt_poll" THEN RepliesReadCount
                      ELSE RepliesReadCount + 1

\* C25 as stated: as long as every reply read for the current motor is
\* neither the 3-byte rejection signature nor contains the token, rotate
\* has not returned and keeps polling.
C25_Original_PollsOnUnlessSignatureOrToken ==
    (NxtMotorStarted
       /\ \A r \in RepliesRead : ~EqualsSignature(r) /\ ~HasToken(r)) =>
        StillPolling

\* Every reply read so far neither begins with the rejection signature nor
\* contains the token.
OnlyIdleReplies ==
    \A r \in RepliesRead : ~BeginsWithSignature(r) /\ ~HasToken(r)

\* C25, amended: there is no bound on the polls.  As long as every reply
\* read for the current motor neither begins with the rejection signature
\* nor contains the token, rotate has not returned: after N such replies
\* it is in the loop and the (N + 1)-th mailbox check is written or about
\* to be; every check about to be written does get written; so rotate
\* leaves the loop only on a reply that rejects or acknowledges.
C25_NoBoundOnPolls ==
    /\ []((NxtMotorStarted /\ OnlyIdleReplies) => StillPolling)
    /\ \A n \in 0..MaxIdlePolls :
          (NxtMotorStarted /\ OnlyIdleReplies
             /\ pc = "nxt_poll" /\ RepliesReadCount = n)
          ~> (NxtMotorStarted /\ PollsWritten = n + 1)

\* Witness of C25: as many idle replies as the model allows have been read
\* and one more mailbox check is out.
C25_Witness ==
    /\ NxtMotorStarted
    /\ OnlyIdleReplies
    /\ RepliesReadCount = MaxIdlePolls
    /\ PollsWritten = MaxIdlePolls + 1
    /\ pc = "nxt_reply"

(***************************************************************************)
(* No motion command is written twice.                                      *)
(***************************************************************************)
\* The writes of the call that carry the motion command of motor m.
MotionWritesOf(m) ==
    IF dev = "EV3"
    THEN { j \in WritePositions(wire) :
             IsSeqFrameOf(wire[j].data, m, cur.speed, cur.motors[m + 1]) }
    ELSE { j \in WritePositions(wire) :
             IsNxtFramesOf(wire[j].data, m, cur.motors[m + 1], cur.speed) }

\* C26: within one rotate call the motion command of each motor (its EV3
\* message, its three NXT frames) is written at most once, whatever the
\* replies are, and a simultaneous EV3 rotate writes at most one message;
\* the only write that is repeated is the NXT mailbox check.
C26_NoMotionCommandTwice ==
    (cur.op = "rotate" /\ cur.motors # <<>>) =>
        IF dev = "EV3" /\ cur.simult
        THEN Cardinality(WritePositions(wire)) <= 1
        ELSE /\ \A m \in 0..(Len(cur.motors) - 1) :
                   Cardinality(MotionWritesOf(m)) <= 1
             /\ \A j \in WritePositions(wire) :
                   \/ dev = "NXT" /\ IsPoll(wire[j])
                   \/ \E m \in 0..(Len(cur.motors) - 1) :
                         cur.motors[m + 1] # 0 /\ j \in MotionWritesOf(m)

\* Witness of C26: an NXT rotate of two motors has ended; the mailbox was
\* checked three times or more, and each motor's frames went out once.
C26_Witness ==
    /\ dev = "NXT"
    /\ cur.op = "rotate"
    /\ pc = "done"
    /\ cur.motors = <<90, 0, -45, 0>>
    /\ Cardinality({j \in WritePositions(wire) : IsPoll(wire[j])}) >= 3
    /\ Cardinality(MotionWritesOf(0)) = 1
    /\ Cardinality(MotionWritesOf(2)) = 1

(***************************************************************************)
(* relposition against what was written to the port.                        *)
(***************************************************************************)
\* The angle the ended call has written to the port for motor m (0-based):
\* its delta when the motor's motion command is among the writes, else 0.
WrittenDelta(m) ==
    IF dev = "EV3" /\ cur.simult
    THEN IF WritePositions(wire) # {} THEN cur.motors[m + 1] ELSE 0
    ELSE IF MotionWritesOf(m) # {} THEN cur.motors[m + 1] ELSE 0

\* C28 as stated, call by call (the entries start at 0 with nothing
\* written): when a rotateto call has ended, failed or not, each entry of
\* relposition has changed by exactly the delta the call wrote to the port
\* for that motor, and by nothing when the motor's motion was never
\* transmitted.
C28_Original_RelPositionIsSumOfWrittenDeltas ==
    (cur.op = "rotateto" /\ pc = "done") =>
        IF cur.argc > Width(dev)
        THEN relposition = cur.before
        ELSE \A i \in 1..Width(dev) :
                relposition[i] - cur.before[i] = WrittenDelta(i - 1)

\* C29: for integer start and end vectors, from each waypoint returned to
\* the next every component changes by at most 1 and never against its
\* direction of travel, every waypoint lies between start and end, and a
\* component with the largest displacement changes by exactly 1 at every
\* step.
C29_UnitStepsTowardsEnd ==
    (Stepped /\ IntegerVectors /\ result.kind = "returned") =>
        \A m \in 1..Len(PlanEnd) :
            LET up == PlanEnd[m] >= PlanStart[m]
                lo == IF up THEN PlanStart[m] ELSE PlanEnd[m]
                hi == IF up THEN PlanEnd[m] ELSE PlanStart[m]
            IN  /\ \A k \in 1..Len(Waypoints) :
                      Waypoints[k][m] \in lo..hi
                /\ \A k \in 1..(Len(Waypoints) - 1) :
                      LET d == Waypoints[k + 1][m] - Waypoints[k][m]
                      IN  /\ d \in (IF up THEN {0, 1} ELSE {-1, 0})
                          /\ Abs(PlanEnd[m] - PlanStart[m]) = PlanSteps =>
                                Abs(d) = 1

\* Witness of C29: the waypoints from [0, 0] to [10, -3]: the first
\* component goes up by 1 at every step, the second goes down three times.
C29_Witness ==
    /\ Stepped
    /\ cur.motors = << <<Some(0), Some(0)>>, <<Some(10), Some(-3)>> >>
    /\ result.kind = "returned"
    /\ \A k \in 1..10 : Waypoints[k + 1][1] = Waypoints[k][1] + 1
    /\ Waypoints[2] = <<1, 0>>
    /\ Waypoints[3] = <<2, -1>>
    /\ Waypoints[7] = <<6, -2>>
    /\ Waypoints[10] = <<9, -3>>

(***************************************************************************)
(* The order of the two tests on a mailbox reply.                           *)
(***************************************************************************)
\* The reply read last for the current motor.
LastReply == Segment(wire)[Len(Segment(wire))].data

Rejected ==
    /\ pc = "done"
    /\ result = Returned(PyNone, "CompanionProgramNotRunning")

Acknowledged ==
    /\ result.err = "none"
    /\ \/ pc = "nxt_loop"
       \/ pc = "done" /\ result.kind = "returned"

\* C30: a reply that begins with the rejection signature ends the call as
\* rejected and is the last thing read, also when it is longer than 3 bytes
\* or holds the acknowledgment token; the current motor counts as
\* acknowledged only on a reply that holds the token and does not begin
\* with the signature; and only a reply beginning with the signature
\* rejects.
C30_RejectionTestedFirstOnThreeBytes ==
    (dev = "NXT" /\ cur.op = "rotate" /\ MotorWritePositions(wire) # {}) =>
        LET seg == Segment(wire)
        IN  /\ \A j \in ReplyPositions(seg) :
                  BeginsWithSignature(seg[j].data) =>
                      (j = Len(seg) /\ Rejected)
            /\ Acknowledged =>
                  (HasToken(LastReply) /\ ~BeginsWithSignature(LastReply))
            /\ Rejected => BeginsWithSignature(LastReply)

\* Witness of C30: the reply read begins with the signature and goes on
\* with the acknowledgment token; the call has ended as rejected, with a
\* later motor never started.
C30_Witness ==
    /\ dev = "NXT"
    /\ cur.op = "rotate"
    /\ cur.motors = <<90, 0, -45, 0>>
    /\ MotorWritePositions(wire) = {1}
    /\ Rejected
    /\ LastReply = <<2, 19, 236>> \o NxtAckToken

====
